---- MODULE Spec2Model ----
(***************************************************************************)
(* Model of the SRS RAN simulator charm (src/src/charm.py): the stored     *)
(* state of SrsLteCharm, its event handlers, the two command builders, the *)
(* service-unit rendering and the status derivation.                       *)
(*                                                                         *)
(* Python values are modelled as follows.                                  *)
(*   - An Optional value is None (the empty tuple) or Some(v) (a 1-tuple). *)
(*   - An address text is the tuple of its dot-separated decimal fields,   *)
(*     <<10, 0, 0, 1>> for "10.0.0.1"; AddrText formats it back to text    *)
(*     where the code interpolates it into a command line.                 *)
(*   - Every other text is a TLA+ string.                                  *)
(***************************************************************************)
EXTENDS Integers, Sequences, FiniteSets, TLC

\* ------------------------------------------------------------------ bounds
\* Number of events handled in a behaviour.
MaxEvents == 4

\* ---------------------------------------------------------- Python values
None == <<>>
Some(v) == <<v>>
Val(o) == o[1]

\* Python truthiness of an Optional[str] holding a TLA+ string.
TruthyStr(o) == o # None /\ Val(o) # ""
\* Python truthiness of an Optional[str] holding an address text.
TruthyAddr(o) == o # None /\ Val(o) # <<>>

RECURSIVE Join(_, _)
\* sep.join(parts)
Join(parts, sep) ==
    IF parts = <<>> THEN ""
    ELSE IF Len(parts) = 1 THEN parts[1]
    ELSE parts[1] \o sep \o Join(Tail(parts), sep)

\* The text of an address given by its dot-separated decimal fields.
AddrText(a) == Join([i \in 1..Len(a) |-> ToString(a[i])], ".")

\* f"{value}" of an Optional text: None formats as the word None.
FmtStr(o) == IF o = None THEN "None" ELSE Val(o)
FmtAddr(o) == IF o = None THEN "None" ELSE AddrText(Val(o))

\* utils.is_ipv4: four decimal fields, each in 0..255.
IsIPv4(o) ==
    /\ o # None
    /\ Len(Val(o)) = 4
    /\ \A i \in 1..4 : Val(o)[i] \in 0..255

\* ------------------------------------------------------------ input sets
ValidAddrs == {<<10, 0, 0, 1>>, <<192, 168, 1, 5>>}
\* Candidate "mme-addr" values of the relation data: absent, valid, and texts
\* that are not IPv4 literals (empty, three fields, a field out of range).
InvalidCandidates == {None, Some(<<>>), Some(<<10, 0, 1>>), Some(<<10, 0, 0, 256>>)}
Candidates == InvalidCandidates \cup {Some(a) : a \in ValidAddrs}
\* What the address resolver (ip_from_iface / ip_from_default_iface) returns.
ResolverResults == {None} \cup {Some(a) : a \in ValidAddrs}

\* Parameters of the attach-ue action: usim-imsi, usim-k, usim-opc.
AttachParams ==
    { <<"001010000000001", "00112233445566778899aabbccddeeff", "63bfa50ee6523365ff14c1f45f88737d">>,
      <<"", "", "">>,
      <<"001010000000001", "", "63bfa50ee6523365ff14c1f45f88737d">> }

\* ------------------------------------------------------------- constants
SRS_ENB_SERVICE == "srsenb"
SRS_UE_SERVICE == "srsue"
SRS_ENB_BINARY == "/build/srsenb/src/srsenb"
SRS_UE_BINARY == "/build/srsue/src/srsue"
ConfigPathEnb == "/config/enb.conf"
ConfigPathDrb == "/config/drb.conf"
ConfigPathRr == "/config/rr.conf"
ConfigPathSib == "/config/sib.conf"
ConfigPathUe == "/config/ue.conf"

\* The charm's configuration options with their default values.
DefaultConfig ==
    [ enb_name |-> "dummyENB01",
      enb_mcc |-> "901",
      enb_mnc |-> "70",
      enb_rf_device_name |-> "zmq",
      enb_rf_device_args |-> "fail_on_disconnect=true,tx_port=tcp://*:2000,rx_port=tcp://localhost:2001,id=enb,base_srate=23.04e6",
      ue_usim_algo |-> "milenage",
      ue_nas_apn |-> "oai.ipv4",
      ue_device_name |-> "zmq",
      ue_device_args |-> "tx_port=tcp://*:2001,rx_port=tcp://localhost:2000,id=ue,base_srate=23.04e6",
      bind_address_subnet |-> None ]

\* The configurations the operator can set: the defaults, and one with an eNB
\* option, a UE option and the bind-address subnet changed from the default.
AltConfig ==
    [DefaultConfig EXCEPT !.enb_name = "enb02",
                          !.ue_nas_apn = "internet",
                          !.bind_address_subnet = Some("192.168.1.0/24")]
Configs == {DefaultConfig, AltConfig}

\* ------------------------------------------------------- command builders
\* _get_srsenb_command, appending the mme flag without testing mme_addr.
GetSrsenbCommandArgs_AlwaysMme(st, cfg) ==
    <<SRS_ENB_BINARY, "--enb.mme_addr=" \o FmtAddr(st.mme_addr)>>
    \o (IF TruthyAddr(st.bind_addr)
        THEN <<"--enb.gtp_bind_addr=" \o FmtAddr(st.bind_addr),
               "--enb.s1c_bind_addr=" \o FmtAddr(st.bind_addr)>>
        ELSE <<>>)
    \o <<"--enb.name=" \o cfg.enb_name,
         "--enb.mcc=" \o cfg.enb_mcc,
         "--enb.mnc=" \o cfg.enb_mnc,
         "--enb_files.rr_config=" \o ConfigPathRr,
         "--enb_files.sib_config=" \o ConfigPathSib,
         "--enb_files.drb_config=" \o ConfigPathDrb,
         ConfigPathEnb,
         "--rf.device_name=" \o cfg.enb_rf_device_name,
         "--rf.device_args=" \o cfg.enb_rf_device_args>>

\* _get_srsenb_command as the list it joins
GetSrsenbCommandArgs(st, cfg) ==
    <<SRS_ENB_BINARY>>
    \o (IF TruthyAddr(st.mme_addr)
        THEN <<"--enb.mme_addr=" \o FmtAddr(st.mme_addr)>> ELSE <<>>)
    \o (IF TruthyAddr(st.bind_addr)
        THEN <<"--enb.gtp_bind_addr=" \o FmtAddr(st.bind_addr),
               "--enb.s1c_bind_addr=" \o FmtAddr(st.bind_addr)>>
        ELSE <<>>)
    \o <<"--enb.name=" \o cfg.enb_name,
         "--enb.mcc=" \o cfg.enb_mcc,
         "--enb.mnc=" \o cfg.enb_mnc,
         "--enb_files.rr_config=" \o ConfigPathRr,
         "--enb_files.sib_config=" \o ConfigPathSib,
         "--enb_files.drb_config=" \o ConfigPathDrb,
         ConfigPathEnb,
         "--rf.device_name=" \o cfg.enb_rf_device_name,
         "--rf.device_args=" \o cfg.enb_rf_device_args>>

GetSrsenbCommand(st, cfg) == Join(GetSrsenbCommandArgs(st, cfg), " ")

\* _get_srsue_command as the list it joins
GetSrsueCommandArgs(st, cfg) ==
    <<SRS_UE_BINARY>>
    \o (IF TruthyStr(st.ue_usim_imsi)
        THEN <<"--usim.imsi=" \o FmtStr(st.ue_usim_imsi),
               "--usim.k=" \o FmtStr(st.ue_usim_k),
               "--usim.opc=" \o FmtStr(st.ue_usim_opc)>>
        ELSE <<>>)
    \o <<"--usim.algo=" \o cfg.ue_usim_algo,
         "--nas.apn=" \o cfg.ue_nas_apn,
         "--rf.device_name=" \o cfg.ue_device_name,
         "--rf.device_args=" \o cfg.ue_device_args,
         ConfigPathUe>>

GetSrsueCommand(st, cfg) == Join(GetSrsueCommandArgs(st, cfg), " ")

\* ---------------------------------------------------------- unit renderer
\* templates/srsenb.service and templates/srsue.service, as the text before and
\* after the {{ command }} placeholder.
EnbTemplate ==
    [ head |-> "[Unit]\nDescription=Srs EnodeB Service\nAfter=network.target\nStartLimitIntervalSec=0\n[Service]\nType=simple\nRestart=always\nRestartSec=1\nUser=root\nExecStart=",
      tail |-> "\n\n[Install]\nWantedBy=multi-user.target" ]
UeTemplate ==
    [ head |-> "[Unit]\nDescription=Srs User Emulator Service\nAfter=network.target\nStartLimitIntervalSec=0\n[Service]\nType=simple\nRestart=always\nRestartSec=1\nExecStart=",
      tail |-> "\nUser=root\nKillSignal=SIGINT\nTimeoutStopSec=10\nExecStopPost=service srsenb restart\n\n[Install]\nWantedBy=multi-user.target" ]

\* Template(text).render(command=command)
Render(template, command) == template.head \o command \o template.tail

\* -------------------------------------------------------- status derivation
\* _get_current_status, appending the attached text outside the started branch.
GetCurrentStatus_AttachedOutsideStarted(st, act) ==
    LET base == IF st.installed THEN "SW installed." ELSE ""
        head ==
            IF st.started /\ act[SRS_ENB_SERVICE]
            THEN "srsenb started. "
                 \o (IF TruthyAddr(st.mme_addr)
                     THEN "mme: " \o FmtAddr(st.mme_addr) \o ". " ELSE "")
            ELSE base
        msg == head \o (IF st.ue_attached /\ act[SRS_UE_SERVICE]
                        THEN "ue attached. " ELSE "")
    IN [kind |-> "active", msg |-> msg]

\* _get_current_status
GetCurrentStatus(st, act) ==
    LET base == IF st.installed THEN "SW installed." ELSE ""
        msg ==
            IF st.started /\ act[SRS_ENB_SERVICE]
            THEN "srsenb started. "
                 \o (IF TruthyAddr(st.mme_addr)
                     THEN "mme: " \o FmtAddr(st.mme_addr) \o ". " ELSE "")
                 \o (IF st.ue_attached /\ act[SRS_UE_SERVICE]
                     THEN "ue attached. " ELSE "")
            ELSE base
    IN [kind |-> "active", msg |-> msg]

Maintenance(m) == [kind |-> "maintenance", msg |-> m]

\* ------------------------------------------------------------------ state
VARIABLES
    stored,   \* SrsLteCharm._stored
    config,   \* the charm configuration (self.config)
    units,    \* the service files written under /etc/systemd/system
    active,   \* liveness of the two systemd services (utils.service_active)
    enabled,  \* the services enabled for auto-start
    env,      \* the working environment: cloned source, build output, config files
    status,   \* self.unit.status
    last      \* the event handled last: its inputs, the calls it issued, the
              \* commands systemd ran in consequence, how it ended, and n, the
              \* number of events handled so far

vars == <<stored, config, units, active, enabled, env, status, last>>

Services == {SRS_ENB_SERVICE, SRS_UE_SERVICE}

\* self._stored.set_default(...)
StoredDefault ==
    [ mme_addr |-> None,
      bind_addr |-> None,
      ue_usim_imsi |-> None,
      ue_usim_k |-> None,
      ue_usim_opc |-> None,
      installed |-> FALSE,
      started |-> FALSE,
      ue_attached |-> FALSE ]

\* What _reset_environment leaves: the four directories, empty.
EmptyEnv == [src |-> FALSE, build |-> FALSE, config |-> FALSE]

Init ==
    /\ stored = StoredDefault
    /\ config = DefaultConfig
    /\ units = [s \in Services |-> None]
    /\ active = [s \in Services |-> FALSE]
    /\ enabled = {}
    /\ env = EmptyEnv
    /\ status = [kind |-> "unknown", msg |-> ""]
    /\ last = [event |-> "init", fault |-> "none", outcome |-> "done",
               effects |-> <<>>, hooks |-> <<>>, arg |-> None, n |-> 0]

\* ------------------------------------------------------- handler execution
\* A handler is a sequence of steps run in order on a machine record m. fault
\* names the one call of the event that fails ("none": no call fails). A failing
\* step of the provisioning (os.mkdir, the clone, the build, the copy) or of the
\* rendering (open) raises, which ends the handler (m.raised); a failing call of
\* the process supervisor reports the failure and the handler goes on.
\* m.effects lists the calls that returned, in order; m.hooks lists the commands
\* systemd ran on its own as a consequence of them.
Machine(st, cfg) ==
    [ stored |-> st, config |-> cfg, units |-> units, active |-> active,
      enabled |-> enabled, env |-> env, status |-> status,
      effects |-> <<>>, hooks |-> <<>>, raised |-> FALSE ]

Log(m, call) == [m EXCEPT !.effects = Append(@, call)]
Raise(m) == [m EXCEPT !.raised = TRUE]

\* self.unit.status = MaintenanceStatus(msg)
SetMaintenance(m, msg) == [m EXCEPT !.status = Maintenance(msg)]
\* self.unit.status = self._get_current_status()
SetCurrentStatus(m) == [m EXCEPT !.status = GetCurrentStatus(m.stored, m.active)]

\* _reset_environment: rmtree of the four directories, then mkdir of each.
ResetEnvironment(m, fault) ==
    LET wiped == [m EXCEPT !.env = EmptyEnv]
    IN IF fault = "reset_env" THEN Raise(wiped) ELSE Log(wiped, "reset_env")

\* update_apt_cache and install_apt_package for each of APT_REQUIREMENTS
InstallAptPackages(m, fault) == Log(m, "apt")

\* git_clone(GIT_REPO, output_folder=SRC_PATH, ...): a failed fetch is fatal.
GitClone(m, fault) ==
    IF fault = "git_clone" THEN Raise(m)
    ELSE Log([m EXCEPT !.env.src = TRUE], "git_clone")

\* shell(SRS_ENB_UE_BUILD_COMMAND): cmake of SRC_PATH and make, in BUILD_PATH; a
\* failed build is fatal.
Build(m, fault) ==
    IF fault = "build" THEN Raise(m)
    ELSE Log([m EXCEPT !.env.build = TRUE], "build")

\* copy_files(origin=CONFIG_ORIGIN_PATHS, destination=CONFIG_PATHS): shutil.copy
\* of each example file of the cloned source.
CopyFiles(m, fault) ==
    IF fault = "copy_files" THEN Raise(m)
    ELSE Log([m EXCEPT !.env.config = TRUE], "copy_files")

\* _configure_service returning without writing when the rendering fails.
ConfigureService_SkipsOnFailure(m, svc, template, command, fault) ==
    IF fault = "render:" \o svc
    THEN m
    ELSE Log([m EXCEPT !.units[svc] = Some(Render(template, command))],
             "render:" \o svc)

\* _configure_service: read the template, render it with the command, write the
\* service file, reload the daemon. A failing open raises before the write.
ConfigureService(m, svc, template, command, fault) ==
    IF fault = "render:" \o svc
    THEN Raise(m)
    ELSE Log([m EXCEPT !.units[svc] = Some(Render(template, command))],
             "render:" \o svc)

ConfigureSrsenbService(m, fault) ==
    ConfigureService(m, SRS_ENB_SERVICE, EnbTemplate,
                     GetSrsenbCommand(m.stored, m.config), fault)

ConfigureSrsueService(m, fault) ==
    ConfigureService(m, SRS_UE_SERVICE, UeTemplate,
                     GetSrsueCommand(m.stored, m.config), fault)

\* The ExecStopPost= line of each unit template: the service its command
\* ("service srsenb restart") restarts, None for a template without the line.
ExecStopPost ==
    [s \in Services |-> IF s = SRS_UE_SERVICE THEN Some(SRS_ENB_SERVICE) ELSE None]

\* What systemd does when a live service svc is stopped (by a stop, or by the
\* stop half of a restart): it runs the ExecStopPost command of the unit, which
\* restarts the service named there, bringing it up if its unit file exists.
RunExecStopPost(m, svc) ==
    IF m.active[svc] /\ m.units[svc] # None /\ ExecStopPost[svc] # None
    THEN LET t == Val(ExecStopPost[svc])
         IN [m EXCEPT !.hooks = Append(@, "restart:" \o t),
                      !.active[t] = IF m.units[t] # None THEN TRUE ELSE @]
    ELSE m

\* utils.service_enable / service_start / service_stop / service_restart: the
\* call is made; when it fails the service is left as it was. systemd can
\* enable, start or restart a service only once its unit file is written.
Fails(m, call, svc, fault) == fault = call \o ":" \o svc \/ m.units[svc] = None

ServiceEnable(m, svc, fault) ==
    Log(IF Fails(m, "enable", svc, fault) THEN m
        ELSE [m EXCEPT !.enabled = @ \cup {svc}], "enable:" \o svc)
\* service_start raising when the call fails.
ServiceStart_RaisesOnFailure(m, svc, fault) ==
    IF Fails(m, "start", svc, fault) THEN Raise(m)
    ELSE Log([m EXCEPT !.active[svc] = TRUE], "start:" \o svc)

ServiceStart(m, svc, fault) ==
    Log(IF Fails(m, "start", svc, fault) THEN m
        ELSE [m EXCEPT !.active[svc] = TRUE], "start:" \o svc)
ServiceStop(m, svc, fault) ==
    Log(IF fault = "stop:" \o svc THEN m
        ELSE [RunExecStopPost(m, svc) EXCEPT !.active[svc] = FALSE], "stop:" \o svc)
ServiceRestart(m, svc, fault) ==
    Log(IF Fails(m, "restart", svc, fault) THEN m
        ELSE [RunExecStopPost(m, svc) EXCEPT !.active[svc] = TRUE], "restart:" \o svc)

\* m after step f, unless an earlier step raised.
Then(m, next) == IF m.raised THEN m ELSE next

\* ---------------------------------------------------------------- handlers
\* _on_install, putting every other stored field back to its default.
OnInstall_ResetsState(m, fault) ==
    LET m1 == InstallAptPackages(SetMaintenance(m, "Installing apt packages"), fault)
        m2 == ResetEnvironment(SetMaintenance(m1, "Preparing the environment"), fault)
        m3 == Then(m2, GitClone(SetMaintenance(m2, "Downloading srsLTE from Github"), fault))
        m4 == Then(m3, Build(SetMaintenance(m3, "Building srsLTE"), fault))
        m5 == Then(m4, CopyFiles(SetMaintenance(m4, "Generating configuration files"), fault))
        m6 == Then(m5, ConfigureSrsenbService(SetMaintenance(m5, "Generating systemd files"), fault))
        m7 == Then(m6, ConfigureSrsueService(m6, fault))
        m8 == Then(m7, ServiceEnable(m7, SRS_ENB_SERVICE, fault))
    IN Then(m8, [m8 EXCEPT !.stored = [StoredDefault EXCEPT !.installed = TRUE]])

\* _on_install, enabling srsue as well as srsenb.
OnInstall_EnablesBoth(m, fault) ==
    LET m1 == InstallAptPackages(SetMaintenance(m, "Installing apt packages"), fault)
        m2 == ResetEnvironment(SetMaintenance(m1, "Preparing the environment"), fault)
        m3 == Then(m2, GitClone(SetMaintenance(m2, "Downloading srsLTE from Github"), fault))
        m4 == Then(m3, Build(SetMaintenance(m3, "Building srsLTE"), fault))
        m5 == Then(m4, CopyFiles(SetMaintenance(m4, "Generating configuration files"), fault))
        m6 == Then(m5, ConfigureSrsenbService(SetMaintenance(m5, "Generating systemd files"), fault))
        m7 == Then(m6, ConfigureSrsueService(m6, fault))
        m8 == Then(m7, ServiceEnable(m7, SRS_ENB_SERVICE, fault))
        m9 == Then(m8, ServiceEnable(m8, SRS_UE_SERVICE, fault))
    IN Then(m9, [m9 EXCEPT !.stored.installed = TRUE])

\* _on_install
OnInstall(m, fault) ==
    LET m1 == InstallAptPackages(SetMaintenance(m, "Installing apt packages"), fault)
        m2 == ResetEnvironment(SetMaintenance(m1, "Preparing the environment"), fault)
        m3 == Then(m2, GitClone(SetMaintenance(m2, "Downloading srsLTE from Github"), fault))
        m4 == Then(m3, Build(SetMaintenance(m3, "Building srsLTE"), fault))
        m5 == Then(m4, CopyFiles(SetMaintenance(m4, "Generating configuration files"), fault))
        m6 == Then(m5, ConfigureSrsenbService(SetMaintenance(m5, "Generating systemd files"), fault))
        m7 == Then(m6, ConfigureSrsueService(m6, fault))
        m8 == Then(m7, ServiceEnable(m7, SRS_ENB_SERVICE, fault))
    IN Then(m8, [m8 EXCEPT !.stored.installed = TRUE])

\* _on_start
OnStart(m, fault) ==
    LET m1 == ServiceStart(SetMaintenance(m, "Starting srsenb"), SRS_ENB_SERVICE, fault)
        m2 == [m1 EXCEPT !.stored.started = TRUE]
    IN SetCurrentStatus(m2)

\* _on_stop, clearing installed where the code clears started.
OnStop_ClearsInstalled(m, fault) ==
    LET m1 == ResetEnvironment(m, fault)
        m2 == Then(m1, ServiceStop(m1, SRS_ENB_SERVICE, fault))
        m3 == Then(m2, [m2 EXCEPT !.stored.installed = FALSE])
    IN Then(m3, SetCurrentStatus(m3))

\* _on_stop, stopping srsue along with srsenb.
OnStop_StopsUe(m, fault) ==
    LET m1 == ResetEnvironment(m, fault)
        m2 == Then(m1, ServiceStop(m1, SRS_ENB_SERVICE, fault))
        m3 == Then(m2, ServiceStop(m2, SRS_UE_SERVICE, fault))
        m4 == Then(m3, [m3 EXCEPT !.stored.started = FALSE])
    IN Then(m4, SetCurrentStatus(m4))

\* _on_stop
OnStop(m, fault) ==
    LET m1 == ResetEnvironment(m, fault)
        m2 == Then(m1, ServiceStop(m1, SRS_ENB_SERVICE, fault))
        m3 == Then(m2, [m2 EXCEPT !.stored.started = FALSE])
    IN Then(m3, SetCurrentStatus(m3))

\* _get_bind_address: the address of the interface of the configured subnet when
\* bind-address-subnet is set, of the default interface otherwise.
GetBindAddress(cfg, ifaceAddr, defaultAddr) ==
    IF TruthyStr(cfg.bind_address_subnet) THEN ifaceAddr ELSE defaultAddr

\* The same, restarting only when the rendered unit differs from the one on disk.
ReloadSrsenb_RestartOnChange(m, fault) ==
    LET m1 == ConfigureSrsenbService(m, fault)
        m2 == IF m1.stored.started /\ m1.units # m.units
              THEN ServiceRestart(SetMaintenance(m1, "Reloading srsenb"),
                                  SRS_ENB_SERVICE, fault)
              ELSE m1
    IN Then(m1, m2)

\* The tail shared by _on_config_changed and _mme_relation_changed: render the
\* srsenb unit and, if started, restart the service.
ReloadSrsenb(m, fault) ==
    LET m1 == ConfigureSrsenbService(m, fault)
        m2 == IF m1.stored.started
              THEN ServiceRestart(SetMaintenance(m1, "Reloading srsenb"),
                                  SRS_ENB_SERVICE, fault)
              ELSE m1
    IN Then(m1, m2)

\* _on_config_changed, rendering the unit before the bind address is stored.
OnConfigChanged_RenderFirst(m, bindAddr, fault) ==
    LET m1 == ReloadSrsenb(m, fault)
        m2 == Then(m1, [m1 EXCEPT !.stored.bind_addr = bindAddr])
    IN Then(m2, SetCurrentStatus(m2))

\* _on_config_changed
OnConfigChanged(m, bindAddr, fault) ==
    LET m1 == [m EXCEPT !.stored.bind_addr = bindAddr]
        m2 == ReloadSrsenb(m1, fault)
    IN Then(m2, SetCurrentStatus(m2))

\* _on_update_status
OnUpdateStatus(m) == SetCurrentStatus(m)

\* _on_attach_ue_action, rendering the unit before the subscriber is stored.
OnAttachUeAction_RenderFirst(m, params, fault) ==
    LET m1 == ConfigureSrsueService(m, fault)
        m2 == Then(m1, [m1 EXCEPT !.stored.ue_usim_imsi = Some(params[1]),
                                  !.stored.ue_usim_k = Some(params[2]),
                                  !.stored.ue_usim_opc = Some(params[3])])
        m3 == Then(m2, ServiceRestart(m2, SRS_UE_SERVICE, fault))
        m4 == Then(m3, [m3 EXCEPT !.stored.ue_attached = TRUE])
    IN Then(m4, SetCurrentStatus(m4))

\* _on_attach_ue_action
OnAttachUeAction(m, params, fault) ==
    LET m1 == [m EXCEPT !.stored.ue_usim_imsi = Some(params[1]),
                        !.stored.ue_usim_k = Some(params[2]),
                        !.stored.ue_usim_opc = Some(params[3])]
        m2 == ConfigureSrsueService(m1, fault)
        m3 == Then(m2, ServiceRestart(m2, SRS_UE_SERVICE, fault))
        m4 == Then(m3, [m3 EXCEPT !.stored.ue_attached = TRUE])
    IN Then(m4, SetCurrentStatus(m4))

\* _on_detach_ue_action, clearing the identity alone.
OnDetachUeAction_ClearsImsiOnly(m, fault) ==
    LET m1 == [m EXCEPT !.stored.ue_usim_imsi = None]
        m2 == ServiceStop(m1, SRS_UE_SERVICE, fault)
        m3 == ConfigureSrsueService(m2, fault)
        m4 == Then(m3, [m3 EXCEPT !.stored.ue_attached = FALSE])
    IN Then(m4, SetCurrentStatus(m4))

\* _on_detach_ue_action, writing the unit before the subscriber is cleared.
OnDetachUeAction_RenderBeforeClear(m, fault) ==
    LET m1 == ServiceStop(m, SRS_UE_SERVICE, fault)
        m2 == ConfigureSrsueService(m1, fault)
        m3 == Then(m2, [m2 EXCEPT !.stored.ue_usim_imsi = None,
                                  !.stored.ue_usim_k = None,
                                  !.stored.ue_usim_opc = None,
                                  !.stored.ue_attached = FALSE])
    IN Then(m3, SetCurrentStatus(m3))

\* _on_detach_ue_action
OnDetachUeAction(m, fault) ==
    LET m1 == [m EXCEPT !.stored.ue_usim_imsi = None,
                        !.stored.ue_usim_k = None,
                        !.stored.ue_usim_opc = None]
        m2 == ServiceStop(m1, SRS_UE_SERVICE, fault)
        m3 == ConfigureSrsueService(m2, fault)
        m4 == Then(m3, [m3 EXCEPT !.stored.ue_attached = FALSE])
    IN Then(m4, SetCurrentStatus(m4))

\* _on_remove_default_gw_action, forgetting the bind address with the route.
OnRemoveDefaultGwAction_ClearsBindAddr(m, fault) ==
    IF fault = "route_del" THEN Raise(m)
    ELSE Log([m EXCEPT !.stored.bind_addr = None], "route_del")

\* _on_remove_default_gw_action: shell("route del default"), fatal when the
\* command fails, as for the build command.
OnRemoveDefaultGwAction(m, fault) ==
    IF fault = "route_del" THEN Raise(m) ELSE Log(m, "route_del")

\* _mme_relation_changed without the is_ipv4 check.
MmeRelationChanged_NoGate(m, inData, candidate, fault) ==
    IF inData
    THEN LET m1 == [m EXCEPT !.stored.mme_addr = candidate]
             m2 == ReloadSrsenb(m1, fault)
         IN Then(m2, SetCurrentStatus(m2))
    ELSE SetCurrentStatus(m)

\* _mme_relation_changed. inData: event.unit in event.relation.data; candidate:
\* the "mme-addr" value of the unit's relation data (None when the key is absent).
MmeRelationChanged(m, inData, candidate, fault) ==
    IF inData
    THEN IF ~IsIPv4(candidate)
         THEN m
         ELSE LET m1 == [m EXCEPT !.stored.mme_addr = candidate]
                  m2 == ReloadSrsenb(m1, fault)
              IN Then(m2, SetCurrentStatus(m2))
    ELSE SetCurrentStatus(m)

\* ----------------------------------------------------------------- actions
\* The calls of each handler that can fail.
InstallFaults ==
    {"none", "reset_env", "git_clone", "build", "copy_files",
     "render:srsenb", "render:srsue", "enable:srsenb"}
StartFaults == {"none", "start:srsenb"}
StopFaults == {"none", "reset_env", "stop:srsenb"}
\* service_restart is called only when started
ReloadFaults == {"none", "render:srsenb"}
                \cup (IF stored.started THEN {"restart:srsenb"} ELSE {})
AttachFaults == {"none", "render:srsue", "restart:srsue"}
DetachFaults == {"none", "render:srsue", "stop:srsue"}
RouteFaults == {"none", "route_del"}

\* The state an event leaves, given the machine m its handler ended in. The
\* stored state is saved when the hook ends normally (main commits the framework
\* after the handler returns); a handler that raised ends the hook without that,
\* so the next event finds the stored state as it was. What the handler wrote
\* outside the stored state (files, services, the unit status) stays.
Finish(event, m, fault, arg) ==
    /\ last.n < MaxEvents
    /\ stored' = IF m.raised THEN stored ELSE m.stored
    /\ config' = m.config
    /\ units' = m.units
    /\ active' = m.active
    /\ enabled' = m.enabled
    /\ env' = m.env
    /\ status' = m.status
    /\ last' = [event |-> event, fault |-> fault,
                outcome |-> IF m.raised THEN "raised" ELSE "done",
                effects |-> m.effects, hooks |-> m.hooks, arg |-> arg,
                n |-> last.n + 1]

Install ==
    \E fault \in InstallFaults :
        Finish("Install", OnInstall(Machine(stored, config), fault), fault, None)

Start ==
    \E fault \in StartFaults :
        Finish("Start", OnStart(Machine(stored, config), fault), fault, None)

Stop ==
    \E fault \in StopFaults :
        Finish("Stop", OnStop(Machine(stored, config), fault), fault, None)

\* config-changed: the operator may have set another configuration; the address
\* resolver answers for the subnet's interface and for the default interface.
ConfigChanged ==
    \E cfg \in Configs, ifaceAddr, defaultAddr \in ResolverResults,
       fault \in ReloadFaults :
        \* only one of the two lookups is made
        /\ (IF TruthyStr(cfg.bind_address_subnet) THEN defaultAddr ELSE ifaceAddr) = None
        /\ Finish("ConfigChanged",
                  OnConfigChanged(Machine(stored, cfg),
                                  GetBindAddress(cfg, ifaceAddr, defaultAddr), fault),
                  fault, [bindAddr |-> GetBindAddress(cfg, ifaceAddr, defaultAddr)])

UpdateStatus ==
    Finish("UpdateStatus", OnUpdateStatus(Machine(stored, config)), "none", None)

AttachSubscriber ==
    \E params \in AttachParams, fault \in AttachFaults :
        Finish("AttachSubscriber",
               OnAttachUeAction(Machine(stored, config), params, fault), fault, None)

DetachSubscriber ==
    \E fault \in DetachFaults :
        Finish("DetachSubscriber",
               OnDetachUeAction(Machine(stored, config), fault), fault, None)

RemoveDefaultRoute ==
    \E fault \in RouteFaults :
        Finish("RemoveDefaultRoute",
               OnRemoveDefaultGwAction(Machine(stored, config), fault), fault, None)

PeerAddressChanged ==
    \E inData \in BOOLEAN, candidate \in Candidates, fault \in ReloadFaults :
        /\ ~inData => candidate = None
        /\ (~inData \/ ~IsIPv4(candidate)) => fault = "none"
        /\ Finish("PeerAddressChanged",
                  MmeRelationChanged(Machine(stored, config), inData, candidate, fault),
                  fault, [inData |-> inData, candidate |-> candidate])

Next ==
    \/ Install
    \/ Start
    \/ Stop
    \/ ConfigChanged
    \/ UpdateStatus
    \/ AttachSubscriber
    \/ DetachSubscriber
    \/ RemoveDefaultRoute
    \/ PeerAddressChanged

Spec == Init /\ [][Next]_vars

\* ------------------------------------------- status derivation on its own
\* The stored states _get_current_status can be called in: every combination of
\* the three flags, with or without a peer address; the subscriber fields hold
\* values exactly when a subscriber is attached.
StatusStoredStates ==
    { [ StoredDefault EXCEPT
          !.mme_addr = mme,
          !.installed = inst,
          !.started = st,
          !.ue_attached = att,
          !.ue_usim_imsi = IF att THEN Some("001010000000001") ELSE None,
          !.ue_usim_k = IF att THEN Some("00112233445566778899aabbccddeeff") ELSE None,
          !.ue_usim_opc = IF att THEN Some("63bfa50ee6523365ff14c1f45f88737d") ELSE None ]
      : mme \in {None} \cup {Some(a) : a \in ValidAddrs},
        inst \in BOOLEAN, st \in BOOLEAN, att \in BOOLEAN }

\* The charm in any of these states with any liveness of the two services, both
\* unit files written from the state.
StatusInit ==
    /\ stored \in StatusStoredStates
    /\ active \in [Services -> BOOLEAN]
    /\ config = DefaultConfig
    /\ units = [s \in Services |->
                  IF s = SRS_ENB_SERVICE
                  THEN Some(Render(EnbTemplate, GetSrsenbCommand(stored, config)))
                  ELSE Some(Render(UeTemplate, GetSrsueCommand(stored, config)))]
    /\ enabled = IF stored.installed THEN {SRS_ENB_SERVICE} ELSE {}
    /\ env = [src |-> stored.installed, build |-> stored.installed,
              config |-> stored.installed]
    /\ status = [kind |-> "unknown", msg |-> ""]
    /\ last = [event |-> "init", fault |-> "none", outcome |-> "done",
               effects |-> <<>>, hooks |-> <<>>, arg |-> None, n |-> 0]

\* update-status events alone: each publishes _get_current_status().
StatusSpec == StatusInit /\ [][UpdateStatus]_vars

\* ------------------------------------------------------------------ claims
Triple(st) == <<st.ue_usim_imsi, st.ue_usim_k, st.ue_usim_opc>>

\* C1: validation gate. Handling PeerAddressChanged with a candidate address that
\* is not a valid IPv4 literal changes no field of the stored state and nothing
\* else (configuration, unit files, services, environment, status), and issues
\* no call: no unit render and no service restart.
C1_ValidationGate ==
    [][ ( /\ last'.event = "PeerAddressChanged"
          /\ last'.arg.inData
          /\ ~IsIPv4(last'.arg.candidate) )
        => ( /\ stored' = stored
             /\ UNCHANGED <<config, units, active, enabled, env, status>>
             /\ last'.effects = <<>> ) ]_vars

\* An invalid, non-empty candidate was handled while an address was stored and
\* the base station was started.
C1_Witness ==
    /\ last.event = "PeerAddressChanged"
    /\ last.arg.inData
    /\ last.arg.candidate = Some(<<10, 0, 0, 256>>)
    /\ stored.mme_addr # None
    /\ stored.started

\* C2 (as claimed): in every reachable state started implies installed.
C2_StartedImpliesInstalled == stored.started => stored.installed

\* C2 (amended): started implies installed is preserved by every event except a
\* Start handled while installed is false; installed is never cleared.
C2_StartedImpliesInstalledPreserved ==
    [][ ( /\ stored.started => stored.installed
          /\ ~(last'.event = "Start" /\ ~stored.installed) )
        => (stored'.started => stored'.installed) ]_vars

\* Start was handled after a successful Install, and a Stop followed by a
\* second Start kept both flags.
C2_Witness ==
    /\ last.event = "Start"
    /\ last.n >= 3
    /\ stored.started
    /\ stored.installed

\* C3: subscriber triple atomicity. Between events the three subscriber fields
\* are all set (hold a value) or all unset (None); an AttachSubscriber that ran
\* to its end leaves all three set and ue_attached true; a DetachSubscriber that
\* ran to its end leaves all three unset and ue_attached false.
C3_TripleAtomicity ==
    /\ \/ \A i \in 1..3 : Triple(stored)[i] = None
       \/ \A i \in 1..3 : Triple(stored)[i] # None
    /\ (last.event = "AttachSubscriber" /\ last.outcome = "done")
         => /\ \A i \in 1..3 : Triple(stored)[i] # None
            /\ stored.ue_attached
    /\ (last.event = "DetachSubscriber" /\ last.outcome = "done")
         => /\ \A i \in 1..3 : Triple(stored)[i] = None
            /\ ~stored.ue_attached

\* A detach ran to its end after an attach had written the UE unit with the
\* identity flags of the subscriber.
C3_Witness ==
    /\ last.event = "DetachSubscriber"
    /\ last.outcome = "done"
    /\ last.n >= 2
    /\ Triple(stored) = <<None, None, None>>
    /\ ~stored.ue_attached
    /\ "stop:srsue" \in {last.effects[i] : i \in 1..Len(last.effects)}

\* C4: in every reachable state ue_attached implies that the subscriber triple is
\* present, each of the three fields holding a non-empty value.
C4_AttachedImpliesTriplePresent ==
    stored.ue_attached => \A i \in 1..3 : TruthyStr(Triple(stored)[i])

C6_FailedInstallLeavesNotInstalled ==
    ( /\ last.event = "Install"
      /\ last.fault \in {"reset_env", "git_clone", "build", "copy_files",
                         "render:srsenb", "render:srsue"} )
        => ~stored.installed

\* The number of times call occurs in the calls of an event.
Count(effects, call) == Cardinality({i \in 1..Len(effects) : effects[i] = call})

\* A ConfigChanged, or a PeerAddressChanged carrying a valid IPv4 address, whose
\* unit write did not fail.
ReloadEvent(l) ==
    /\ \/ l.event = "ConfigChanged"
       \/ l.event = "PeerAddressChanged" /\ l.arg.inData /\ IsIPv4(l.arg.candidate)
    /\ l.fault # "render:srsenb"

\* C7: ConfigChanged and PeerAddressChanged with a valid IPv4 address write the
\* srsenb unit anew, rendered from the state and the configuration the event
\* leaves, and then call for a restart of srsenb if and only if started was true
\* when the event arrived; so also when the address equals the stored one.
C7_RenderThenRestartIffStarted ==
    [][ ReloadEvent(last')
        => /\ last'.effects =
                <<"render:srsenb">>
                \o (IF stored.started THEN <<"restart:srsenb">> ELSE <<>>)
           /\ units'[SRS_ENB_SERVICE] =
                Some(Render(EnbTemplate, GetSrsenbCommand(stored', config'))) ]_vars

\* A valid peer address arrived while started: the unit holds the mme flag and
\* a restart was called for.
C7_Witness ==
    /\ last.event = "PeerAddressChanged"
    /\ last.arg.candidate = Some(<<10, 0, 0, 1>>)
    /\ stored.started
    /\ stored.mme_addr = Some(<<10, 0, 0, 1>>)
    /\ last.effects = <<"render:srsenb", "restart:srsenb">>
    /\ last.n >= 3

\* C8: idempotence of ConfigChanged. When a ConfigChanged that ran to its end is
\* followed by another with the same configuration and the same answer of the
\* address resolver, the second leaves the stored state and the text of the
\* srsenb unit as the first left them, and calls for exactly one restart if
\* started and none otherwise.
C8_ConfigChangedIdempotent ==
    [][ ( /\ last.event = "ConfigChanged" /\ last.outcome = "done"
          /\ last'.event = "ConfigChanged" /\ last'.outcome = "done"
          /\ config' = config
          /\ last'.arg.bindAddr = last.arg.bindAddr )
        => /\ stored' = stored
           /\ units' = units
           /\ Count(last'.effects, "restart:srsenb") = (IF stored.started THEN 1 ELSE 0)
           /\ Count(last'.effects, "restart:srsue") = 0 ]_vars

\* A ConfigChanged ran to its end, as the third event or later, in a started
\* state with a bind address resolved: it called for one restart.
C8_Witness ==
    /\ last.event = "ConfigChanged"
    /\ last.outcome = "done"
    /\ last.n >= 3
    /\ stored.started
    /\ stored.bind_addr = Some(<<192, 168, 1, 5>>)
    /\ config = AltConfig
    /\ Count(last.effects, "restart:srsenb") = 1

\* The flags a command must not hold: an optional flag with an empty value or
\* with the text of None.
PlaceholderFlags ==
    { f \o v : f \in {"--enb.mme_addr=", "--enb.gtp_bind_addr=", "--enb.s1c_bind_addr=",
                      "--usim.imsi=", "--usim.k=", "--usim.opc="},
               v \in {"", "None"} }

Args(list) == {list[i] : i \in 1..Len(list)}

\* C9: for every combination of mme_addr and bind_addr set or unset, the srsenb
\* command is, in this order: the binary; the mme-address flag iff mme_addr is
\* set; the gtp and s1c bind-address flags iff bind_addr is set; the name, mcc
\* and mnc flags; the three enb_files flags; the configuration path; the rf
\* device name and args flags. No flag has an empty or placeholder value.
C9_EnbCommand ==
    /\ GetSrsenbCommandArgs(stored, config) =
          <<"/build/srsenb/src/srsenb">>
          \o (IF stored.mme_addr # None
              THEN <<"--enb.mme_addr=" \o AddrText(Val(stored.mme_addr))>> ELSE <<>>)
          \o (IF stored.bind_addr # None
              THEN <<"--enb.gtp_bind_addr=" \o AddrText(Val(stored.bind_addr)),
                     "--enb.s1c_bind_addr=" \o AddrText(Val(stored.bind_addr))>>
              ELSE <<>>)
          \o <<"--enb.name=" \o config.enb_name,
               "--enb.mcc=" \o config.enb_mcc,
               "--enb.mnc=" \o config.enb_mnc,
               "--enb_files.rr_config=/config/rr.conf",
               "--enb_files.sib_config=/config/sib.conf",
               "--enb_files.drb_config=/config/drb.conf",
               "/config/enb.conf",
               "--rf.device_name=" \o config.enb_rf_device_name,
               "--rf.device_args=" \o config.enb_rf_device_args>>
    /\ Args(GetSrsenbCommandArgs(stored, config)) \cap PlaceholderFlags = {}

\* Both addresses are stored, and the unit on disk holds the command with the
\* three optional flags in order.
C9_Witness ==
    /\ stored.mme_addr = Some(<<10, 0, 0, 1>>)
    /\ stored.bind_addr = Some(<<192, 168, 1, 5>>)
    /\ GetSrsenbCommand(stored, DefaultConfig) =
         "/build/srsenb/src/srsenb --enb.mme_addr=10.0.0.1 --enb.gtp_bind_addr=192.168.1.5 --enb.s1c_bind_addr=192.168.1.5 --enb.name=dummyENB01 --enb.mcc=901 --enb.mnc=70 --enb_files.rr_config=/config/rr.conf --enb_files.sib_config=/config/sib.conf --enb_files.drb_config=/config/drb.conf /config/enb.conf --rf.device_name=zmq --rf.device_args=fail_on_disconnect=true,tx_port=tcp://*:2000,rx_port=tcp://localhost:2001,id=enb,base_srate=23.04e6"
    /\ units[SRS_ENB_SERVICE] = Some(Render(EnbTemplate, GetSrsenbCommand(stored, config)))

\* C10: in every reachable state the srsue command is, in this order: the
\* binary; the imsi, k and opc flags iff the subscriber triple is present, each
\* with the stored value, never empty and never the text of None; the algo, apn,
\* rf device name and rf device args flags; the UE configuration path.
C10_UeCommand ==
    /\ GetSrsueCommandArgs(stored, config) =
          <<"/build/srsue/src/srsue">>
          \o (IF \A i \in 1..3 : Triple(stored)[i] # None
              THEN <<"--usim.imsi=" \o Val(stored.ue_usim_imsi),
                     "--usim.k=" \o Val(stored.ue_usim_k),
                     "--usim.opc=" \o Val(stored.ue_usim_opc)>>
              ELSE <<>>)
          \o <<"--usim.algo=" \o config.ue_usim_algo,
               "--nas.apn=" \o config.ue_nas_apn,
               "--rf.device_name=" \o config.ue_device_name,
               "--rf.device_args=" \o config.ue_device_args,
               "/config/ue.conf">>
    /\ Args(GetSrsueCommandArgs(stored, config)) \cap PlaceholderFlags = {}

\* C11: status derivation precedence. For every combination of installed,
\* started, ue_attached, a peer address stored or not, and the liveness of the
\* two services, the status text is: empty when not installed and not (started
\* and srsenb live); the installed text when installed and not (started and
\* srsenb live); otherwise the started text in place of the installed text,
\* followed by the peer address iff one is stored, followed by the attached text
\* iff ue_attached and srsue is live. The attached text never appears unless
\* started is true and srsenb is live.
C11_StatusPrecedence ==
    LET live == stored.started /\ active["srsenb"]
    IN last.event = "UpdateStatus" =>
         /\ status.kind = "active"
         /\ (~live /\ ~stored.installed) => status.msg = ""
         /\ (~live /\ stored.installed) => status.msg = "SW installed."
         /\ live =>
              status.msg =
                  "srsenb started. "
                  \o (IF stored.mme_addr # None
                      THEN "mme: " \o AddrText(Val(stored.mme_addr)) \o ". " ELSE "")
                  \o (IF stored.ue_attached /\ active["srsue"]
                      THEN "ue attached. " ELSE "")

\* The highest tier: installed, started and attached with both services live and
\* a peer address stored.
C11_Witness ==
    /\ last.event = "UpdateStatus"
    /\ stored.installed /\ stored.started /\ stored.ue_attached
    /\ active["srsenb"] /\ active["srsue"]
    /\ status.msg = "srsenb started. mme: 10.0.0.1. ue attached. "

\* The srsenb and srsue commands of the default configuration with none of the
\* optional flags.
BareEnbCommand ==
    "/build/srsenb/src/srsenb --enb.name=dummyENB01 --enb.mcc=901 --enb.mnc=70 --enb_files.rr_config=/config/rr.conf --enb_files.sib_config=/config/sib.conf --enb_files.drb_config=/config/drb.conf /config/enb.conf --rf.device_name=zmq --rf.device_args=fail_on_disconnect=true,tx_port=tcp://*:2000,rx_port=tcp://localhost:2001,id=enb,base_srate=23.04e6"
BareUeCommand ==
    "/build/srsue/src/srsue --usim.algo=milenage --nas.apn=oai.ipv4 --rf.device_name=zmq --rf.device_args=tx_port=tcp://*:2001,rx_port=tcp://localhost:2000,id=ue,base_srate=23.04e6 /config/ue.conf"

\* C12: end-to-end scenario. An Install handled in the initial state that runs to
\* its end leaves installed true and both unit files written, the srsenb and the
\* srsue command holding the always-included flags alone (no mme-address,
\* bind-address or usim flag). A ConfigChanged that runs to its end with the
\* resolver answering address A leaves the srsenb unit rendered with both
\* bind-address flags carrying A, and calls for a restart of srsenb iff started
\* was true before.
C12_InstallThenConfigChanged ==
    [][ /\ (last.n = 0 /\ last'.event = "Install" /\ last'.outcome = "done")
            => /\ stored'.installed
               /\ units'["srsenb"] = Some(Render(EnbTemplate, BareEnbCommand))
               /\ units'["srsue"] = Some(Render(UeTemplate, BareUeCommand))
        /\ ( /\ last'.event = "ConfigChanged" /\ last'.outcome = "done"
             /\ last'.arg.bindAddr # None )
            => /\ units'["srsenb"] =
                    Some(Render(EnbTemplate, Join(
                        <<"/build/srsenb/src/srsenb">>
                        \o (IF stored'.mme_addr # None
                            THEN <<"--enb.mme_addr=" \o AddrText(Val(stored'.mme_addr))>>
                            ELSE <<>>)
                        \o <<"--enb.gtp_bind_addr=" \o AddrText(Val(last'.arg.bindAddr)),
                             "--enb.s1c_bind_addr=" \o AddrText(Val(last'.arg.bindAddr)),
                             "--enb.name=" \o config'.enb_name,
                             "--enb.mcc=901", "--enb.mnc=70",
                             "--enb_files.rr_config=/config/rr.conf",
                             "--enb_files.sib_config=/config/sib.conf",
                             "--enb_files.drb_config=/config/drb.conf",
                             "/config/enb.conf",
                             "--rf.device_name=zmq",
                             "--rf.device_args=" \o config'.enb_rf_device_args>>, " ")))
               /\ Count(last'.effects, "restart:srsenb") = (IF stored.started THEN 1 ELSE 0)
      ]_vars

\* The scenario itself: Install from the initial state, then a ConfigChanged with
\* the subnet hint resolving to 192.168.1.5, not started, so no restart.
C12_Witness ==
    /\ last.event = "ConfigChanged"
    /\ last.n = 2
    /\ stored.installed
    /\ last.arg.bindAddr = Some(<<192, 168, 1, 5>>)
    /\ config = DefaultConfig
    /\ last.effects = <<"render:srsenb">>
    /\ units["srsenb"] = Some(Render(EnbTemplate,
         "/build/srsenb/src/srsenb --enb.gtp_bind_addr=192.168.1.5 --enb.s1c_bind_addr=192.168.1.5 --enb.name=dummyENB01 --enb.mcc=901 --enb.mnc=70 --enb_files.rr_config=/config/rr.conf --enb_files.sib_config=/config/sib.conf --enb_files.drb_config=/config/drb.conf /config/enb.conf --rf.device_name=zmq --rf.device_args=fail_on_disconnect=true,tx_port=tcp://*:2000,rx_port=tcp://localhost:2001,id=enb,base_srate=23.04e6"))
    /\ units["srsue"] = Some(Render(UeTemplate, BareUeCommand))

\* C13: supervisor errors. When the supervisor call of a handler fails, the
\* handler's assignments to the stored state are still applied: a failed start
\* leaves started true, a failed stop of srsenb leaves started false, a failed
\* restart of srsue leaves the subscriber stored and ue_attached true, a failed
\* stop of srsue leaves the subscriber cleared and ue_attached false, and a failed
\* restart of srsenb in ConfigChanged or PeerAddressChanged leaves the new bind
\* or peer address stored.
C13_SupervisorErrorKeepsMutation ==
    /\ (last.event = "Start" /\ last.fault = "start:srsenb")
         => (stored.started /\ last.outcome = "done")
    /\ (last.event = "Stop" /\ last.fault = "stop:srsenb")
         => (~stored.started /\ last.outcome = "done")
    /\ (last.event = "AttachSubscriber" /\ last.fault = "restart:srsue")
         => /\ stored.ue_attached
            /\ \A i \in 1..3 : Triple(stored)[i] # None
            /\ last.outcome = "done"
    /\ (last.event = "DetachSubscriber" /\ last.fault = "stop:srsue")
         => /\ ~stored.ue_attached
            /\ Triple(stored) = <<None, None, None>>
            /\ last.outcome = "done"
    /\ (last.event = "ConfigChanged" /\ last.fault = "restart:srsenb")
         => (stored.bind_addr = last.arg.bindAddr /\ last.outcome = "done")
    /\ (last.event = "PeerAddressChanged" /\ last.fault = "restart:srsenb")
         => (stored.mme_addr = last.arg.candidate /\ last.outcome = "done")

\* After an Install, a Start whose service_start failed: srsenb is not live and
\* started is true.
C13_Witness ==
    /\ last.event = "Start"
    /\ last.fault = "start:srsenb"
    /\ stored.installed
    /\ units["srsenb"] # None
    /\ ~active["srsenb"]
    /\ stored.started

\* C14: template errors. When the rendering of a unit fails during ConfigChanged,
\* PeerAddressChanged or AttachSubscriber, the handler ends there: no restart of
\* srsenb or srsue (and no other supervisor call) is issued in that event, no
\* unit file is written and no service changes.
C14_RenderFailureAborts ==
    [][ ( /\ last'.event \in {"ConfigChanged", "PeerAddressChanged", "AttachSubscriber"}
          /\ last'.fault \in {"render:srsenb", "render:srsue"} )
        => /\ last'.outcome = "raised"
           /\ last'.effects = <<>>
           /\ UNCHANGED <<units, active, enabled>> ]_vars

\* The rendering failed in a ConfigChanged handled while started with srsenb
\* live, where a restart would have followed.
C14_Witness ==
    /\ last.event = "ConfigChanged"
    /\ last.fault = "render:srsenb"
    /\ last.outcome = "raised"
    /\ stored.started
    /\ active["srsenb"]
    /\ Count(last.effects, "restart:srsenb") = 0

\* C15 (as claimed): a successful Install enables both managed services, srsenb
\* and srsue, for auto-start.
C15_InstallEnablesBoth ==
    (last.event = "Install" /\ last.outcome = "done" /\ last.fault = "none")
        => enabled = {"srsenb", "srsue"}

\* C15 (amended): a successful Install writes both units and enables srsenb for
\* auto-start, and that is its only enable call: srsue is not enabled by Install
\* or by any other event.
C15_InstallEnablesSrsenbOnly ==
    /\ (last.event = "Install" /\ last.outcome = "done" /\ last.fault = "none")
         => /\ enabled = {"srsenb"}
            /\ Count(last.effects, "enable:srsenb") = 1
            /\ Count(last.effects, "enable:srsue") = 0
            /\ units["srsenb"] # None /\ units["srsue"] # None
    /\ "srsue" \notin enabled

\* A successful Install: both units are written and srsenb alone is enabled.
C15_Witness ==
    /\ last.event = "Install"
    /\ last.outcome = "done"
    /\ last.fault = "none"
    /\ stored.installed
    /\ units["srsue"] # None
    /\ enabled = {"srsenb"}

\* C16: rendered-unit consistency. After every event that ran to its end once an
\* Install has succeeded, the srsenb unit file equals the rendering of the
\* srsenb command, and the srsue unit file the rendering of the srsue command,
\* of the current stored state and the current configuration; so also after a
\* ConfigChanged that changed a UE option.
C16_UnitsConsistent ==
    (stored.installed /\ last.outcome = "done")
        => /\ units["srsenb"] = Some(Render(EnbTemplate, GetSrsenbCommand(stored, config)))
           /\ units["srsue"] = Some(Render(UeTemplate, GetSrsueCommand(stored, config)))

\* The position of the first occurrence of call in the calls of an event
\* (0: none).
First(effects, call) ==
    IF Count(effects, call) = 0 THEN 0
    ELSE CHOOSE i \in 1..Len(effects) :
            effects[i] = call /\ \A j \in 1..(i - 1) : effects[j] # call

\* C17: render before restart. In ConfigChanged, PeerAddressChanged and
\* AttachSubscriber the fields the unit is rendered from (bind_addr, mme_addr,
\* the subscriber triple) are stored first, then the unit of the service is
\* written from the state after that assignment, and only then is the restart
\* called for: every restart of the event comes after the write of that
\* service's unit, and the unit on disk is the rendering of the state the event
\* leaves. AttachSubscriber calls for the restart of srsue whatever installed
\* and started are.
C17_RenderBeforeRestart ==
    [][ /\ ( /\ last'.event \in {"ConfigChanged", "PeerAddressChanged"}
             /\ Count(last'.effects, "restart:srsenb") > 0 )
            => /\ First(last'.effects, "render:srsenb") = 1
               /\ First(last'.effects, "restart:srsenb") = 2
               /\ Len(last'.effects) = 2
               /\ last'.event = "ConfigChanged" => stored'.bind_addr = last'.arg.bindAddr
               /\ last'.event = "PeerAddressChanged"
                    => stored'.mme_addr = last'.arg.candidate
               /\ units'["srsenb"] =
                    Some(Render(EnbTemplate, GetSrsenbCommand(stored', config')))
        /\ (last'.event = "AttachSubscriber" /\ last'.outcome = "done")
            => /\ last'.effects = <<"render:srsue", "restart:srsue">>
               /\ \A i \in 1..3 : Triple(stored')[i] # None
               /\ units'["srsue"] =
                    Some(Render(UeTemplate, GetSrsueCommand(stored', config')))
        /\ (last'.event = "AttachSubscriber" /\ last'.outcome # "done")
            => Count(last'.effects, "restart:srsue") = 0
      ]_vars

\* An attach handled while neither installed nor started: the unit holds the
\* identity flags of the subscriber and srsue was restarted after the write.
C17_Witness ==
    /\ last.event = "AttachSubscriber"
    /\ last.outcome = "done"
    /\ ~stored.installed
    /\ ~stored.started
    /\ last.effects = <<"render:srsue", "restart:srsue">>
    /\ active["srsue"]
    /\ units["srsue"] = Some(Render(UeTemplate,
         "/build/srsue/src/srsue --usim.imsi=001010000000001 --usim.k=00112233445566778899aabbccddeeff --usim.opc=63bfa50ee6523365ff14c1f45f88737d --usim.algo=milenage --nas.apn=oai.ipv4 --rf.device_name=zmq --rf.device_args=tx_port=tcp://*:2001,rx_port=tcp://localhost:2000,id=ue,base_srate=23.04e6 /config/ue.conf"))

\* What a DetachSubscriber that ran to its end does by its own calls: it stops
\* srsue, then writes the srsue unit with none of the usim flags, calls for no
\* start and no restart, leaves the subscriber cleared and the srsenb unit as it
\* was; a second one in a row leaves the stored state and both unit files as
\* the first left them.
DetachOwnEffects ==
    (last'.event = "DetachSubscriber" /\ last'.outcome = "done")
        => /\ last'.effects = <<"stop:srsue", "render:srsue">>
           /\ units'["srsue"] =
                Some(Render(UeTemplate, Join(
                    <<"/build/srsue/src/srsue",
                      "--usim.algo=milenage",
                      "--nas.apn=" \o config'.ue_nas_apn,
                      "--rf.device_name=zmq",
                      "--rf.device_args=" \o config'.ue_device_args,
                      "/config/ue.conf">>, " ")))
           /\ units'["srsenb"] = units["srsenb"]
           /\ Triple(stored') = <<None, None, None>>
           /\ ~stored'.ue_attached
           /\ active'["srsue"] = (active["srsue"] /\ last'.fault = "stop:srsue")
           /\ (last.event = "DetachSubscriber" /\ last.outcome = "done")
                => (stored' = stored /\ units' = units)

\* C18 (as claimed): DetachSubscriber, from any reachable state, stops srsue,
\* then writes the srsue unit without the usim flags, and never restarts or
\* starts either service; twice is as once.
C18_DetachNeverRestarts ==
    [][ /\ DetachOwnEffects
        /\ last'.event = "DetachSubscriber"
            => /\ last'.hooks = <<>>
               /\ active'["srsenb"] = active["srsenb"] ]_vars

\* C18 (amended): the same, except that stopping a live srsue makes systemd run
\* the ExecStopPost command of its unit, which restarts srsenb, and starts it
\* if it was not running, whatever started is; the handler itself calls for no
\* start or restart, and nothing is restarted when srsue was not live.
C18_DetachRestartsSrsenbViaStopPost ==
    [][ /\ DetachOwnEffects
        /\ last'.event = "DetachSubscriber"
            => /\ Count(last'.effects, "restart:srsenb") = 0
               /\ Count(last'.effects, "restart:srsue") = 0
               /\ Count(last'.effects, "start:srsenb") = 0
               /\ last'.hooks =
                    (IF active["srsue"] /\ last'.fault # "stop:srsue"
                     THEN <<"restart:srsenb">> ELSE <<>>)
               /\ active'["srsenb"] =
                    (IF last'.hooks # <<>> /\ units["srsenb"] # None
                     THEN TRUE ELSE active["srsenb"]) ]_vars

\* A detach stopped a live srsue after an Install and an attach, never started:
\* the srsue unit is bare again and srsenb has been brought up by ExecStopPost.
C18_Witness ==
    /\ last.event = "DetachSubscriber"
    /\ last.outcome = "done"
    /\ last.effects = <<"stop:srsue", "render:srsue">>
    /\ last.hooks = <<"restart:srsenb">>
    /\ stored.installed
    /\ ~stored.started
    /\ active["srsenb"]
    /\ ~active["srsue"]
    /\ units["srsue"] = Some(Render(UeTemplate, BareUeCommand))

\* C19: the frame of Stop. Stop changes no stored field other than started,
\* which it leaves false when it runs to its end: installed, mme_addr,
\* bind_addr, the subscriber triple and ue_attached are as before. It writes no
\* unit file, and srsue is neither stopped nor restarted: the only supervisor
\* call is the stop of srsenb.
C19_StopFrame ==
    [][ last'.event = "Stop"
        => /\ last'.outcome = "done" => stored' = [stored EXCEPT !.started = FALSE]
           /\ last'.outcome # "done" => stored' = stored
           /\ units' = units
           /\ active'["srsue"] = active["srsue"]
           /\ last'.hooks = <<>>
           /\ \A i \in 1..Len(last'.effects) :
                 last'.effects[i] \in {"reset_env", "stop:srsenb"} ]_vars

\* A Stop ran to its end with a subscriber attached and srsue live, a peer
\* address stored: srsenb is down, srsue still up.
C19_Witness ==
    /\ last.event = "Stop"
    /\ last.outcome = "done"
    /\ last.effects = <<"reset_env", "stop:srsenb">>
    /\ ~stored.started
    /\ stored.installed
    /\ stored.ue_attached
    /\ active["srsue"]
    /\ ~active["srsenb"]

\* C20: the frames of RemoveDefaultRoute, update-status and Start.
\* RemoveDefaultRoute and update-status leave every stored field unchanged and
\* issue no render, start, stop or restart (the one call of RemoveDefaultRoute is
\* the deletion of the route; update-status makes no call), so unit files and
\* services are as before. Start changes no stored field other than started.
C20_FrameOfRouteStatusStart ==
    [][ /\ last'.event = "RemoveDefaultRoute"
            => /\ stored' = stored
               /\ last'.effects =
                    (IF last'.fault = "route_del" THEN <<>> ELSE <<"route_del">>)
               /\ last'.hooks = <<>>
               /\ UNCHANGED <<units, active, enabled, status, config, env>>
        /\ last'.event = "UpdateStatus"
            => /\ stored' = stored
               /\ last'.effects = <<>>
               /\ last'.hooks = <<>>
               /\ UNCHANGED <<units, active, enabled, config, env>>
        /\ last'.event = "Start"
            => /\ stored' = [stored EXCEPT !.started = TRUE]
               /\ last'.effects = <<"start:srsenb">>
               /\ units' = units
      ]_vars

\* The default route was removed while started, with a bind address and a peer
\* address stored: all are still there.
C20_Witness ==
    /\ last.event = "RemoveDefaultRoute"
    /\ last.effects = <<"route_del">>
    /\ stored.started
    /\ stored.bind_addr # None
    /\ stored.mme_addr # None

\* C21: every handled event (Install, Start, Stop, ConfigChanged,
\* PeerAddressChanged with a valid or an invalid address, AttachSubscriber,
\* DetachSubscriber, update-status) in which no call fails ends with the unit
\* status equal to _get_current_status of the stored state and the service
\* liveness the event leaves: neither a maintenance status nor a status derived
\* from an earlier state is left as the final status.
C21_StatusIsDerived ==
    ( /\ last.event \in {"Install", "Start", "Stop", "ConfigChanged",
                          "PeerAddressChanged", "AttachSubscriber",
                          "DetachSubscriber", "UpdateStatus"}
      /\ last.fault = "none"
      /\ last.outcome = "done" )
        => status = GetCurrentStatus(stored, active)

\* C22: in every reachable state with installed true the working environment
\* that Install provisioned (the cloned source, the build output, the copied
\* configuration files) is present, so srsenb is never started, started true,
\* against an emptied environment.
C22_InstalledImpliesEnvironment ==
    stored.installed => (env.src /\ env.build /\ env.config)

====
